---- MODULE Spec2Model ----
(***************************************************************************)
(* Model of net_diag_tool.py: one invocation of main(), from the command   *)
(* line to the process exit.  The network (DNS answers, connect outcomes), *)
(* the external ping/traceroute tools and an interrupt signal are the      *)
(* environment, chosen nondeterministically at each call.                  *)
(*                                                                         *)
(* Strings are sequences of one-character strings.  Python's None is the   *)
(* string "None" for addresses and the empty sequence for optional values  *)
(* (args.scan, socket timeouts): <<>> is None, <<v>> is the value v.       *)
(***************************************************************************)
EXTENDS Integers, Sequences, FiniteSets, TLC

\* Longest --scan string the user types.
MaxLen == 4

\* Characters of the --scan strings: two digits (ports 1, 2, 11, 12, ...),
\* the separator, and the sign (alone it is a non-numeric token, before
\* digits it makes a negative port).
Alphabet == {"1", "2", ",", "-"}

Digits == <<"0", "1", "2", "3", "4", "5", "6", "7", "8", "9">>

\* The timeout of line 88, in seconds.
per_port_timeout == 1

\* common_ports of main
common_ports ==
    <<"2","1",",","2","2",",","8","0",",","4","4","3",",",
      "3","3","0","6",",","8","0","0","0",",","8","0","8","0">>

VARIABLES
    pc,              \* position of main
    args,            \* sys.argv as parsed by argparse
    ip,              \* main's ip
    scan_ip,         \* scan_ports' ip_address
    trace_ip,        \* traceroute's ip_address
    ports,           \* scan_ports' ports argument
    port_list,       \* scan_ports' port_list
    idx,             \* position of the for loop in port_list
    open_ports,      \* scan_ports' open_ports
    results,         \* the "Port p: Open/Closed" lines printed, in order
    summary,         \* <<>> until the summary line is printed, then <<ports in it>>
    defaulttimeout,  \* the socket module's default timeout
    lastTimeout,     \* timeout of the socket of the last connect_ex
    lastOutcome,     \* what the network did with the last connect_ex
    steps,           \* the steps main has started, in order
    out,             \* the other messages printed, in order
    fault,           \* the exception that ended the process, or "none"
    exitCode,        \* the process exit code once pc is terminal
    resolveCalls     \* number of calls of resolve_host

vars == <<pc, args, ip, scan_ip, trace_ip, ports, port_list, idx, open_ports,
          results, summary, defaulttimeout, lastTimeout, lastOutcome, steps,
          out, fault, exitCode, resolveCalls>>

scanVars == <<scan_ip, ports, port_list, idx, open_ports, results, summary,
              defaulttimeout, lastTimeout, lastOutcome>>

-----------------------------------------------------------------------------
(* Strings *)

RECURSIVE StringsUpTo(_)
StringsUpTo(n) ==
    IF n = 0 THEN {<<>>}
    ELSE LET shorter == StringsUpTo(n - 1)
         IN  shorter \cup {Append(s, c) : s \in {t \in shorter : Len(t) = n - 1}, c \in Alphabet}

\* ports.split(','): the pieces between the commas, empty pieces included.
RECURSIVE SplitFrom(_, _, _, _)
SplitFrom(s, i, cur, acc) ==
    IF i > Len(s) THEN Append(acc, cur)
    ELSE IF s[i] = "," THEN SplitFrom(s, i + 1, <<>>, Append(acc, cur))
    ELSE SplitFrom(s, i + 1, Append(cur, s[i]), acc)

Split(s) == SplitFrom(s, 1, <<>>, <<>>)

IsDigit(c) == \E d \in DOMAIN Digits : Digits[d] = c

DigitVal(c) == (CHOOSE d \in DOMAIN Digits : Digits[d] = c) - 1

AllDigits(t) == Len(t) > 0 /\ \A i \in DOMAIN t : IsDigit(t[i])

\* int(p) succeeds: digits, or a sign followed by digits.
IsIntLiteral(t) ==
    \/ AllDigits(t)
    \/ Len(t) > 1 /\ t[1] = "-" /\ AllDigits(Tail(t))

RECURSIVE NatOf(_)
NatOf(t) == IF t = <<>> THEN 0 ELSE 10 * NatOf(SubSeq(t, 1, Len(t) - 1)) + DigitVal(t[Len(t)])

\* int(p)
IntOf(t) == IF t[1] = "-" THEN 0 - NatOf(Tail(t)) ELSE NatOf(t)

\* int(p) raises ValueError for some piece of the string
RaisesValueError(s) ==
    LET pieces == Split(s) IN \E i \in DOMAIN pieces : ~IsIntLiteral(pieces[i])

\* variant of ParsePorts that keeps the first occurrence of each port only
ParsePorts_dedup(s) ==
    LET pieces == Split(s)
        all == [i \in DOMAIN pieces |-> IntOf(pieces[i])]
        first == {i \in DOMAIN all : \A j \in 1..(i - 1) : all[j] # all[i]}
        F[i \in 0..Len(all)] ==
            IF i = 0 THEN <<>>
            ELSE IF i \in first THEN Append(F[i - 1], all[i]) ELSE F[i - 1]
    IN  F[Len(all)]

\* [int(p) for p in ports.split(',')]
ParsePorts(s) == LET pieces == Split(s) IN [i \in DOMAIN pieces |-> IntOf(pieces[i])]

-----------------------------------------------------------------------------
(* The environment *)

\* socket.gethostbyname: an address, or gaierror (resolve_host returns None)
ResolveOutcomes == {"None", "A1", "A2"}

\* what the network does with a TCP connect
ConnectOutcomes == {"ok", "refused", "timeout", "unreachable"}

\* subprocess.check_output(['ping', ...])
PingOutcomes == {"reachable", "unreachable", "notfound"}

\* subprocess.Popen([command, host])
TraceOutcomes == {"ran", "notfound"}

-----------------------------------------------------------------------------
(* Command lines *)

Some(v) == <<v>>

\* kind "none": no argument at all; "bad": arguments argparse rejects
\* (no host, unknown option); "ok": a host and any flags.  With --all the
\* other options are not read (line 168), so two such command lines stand
\* for all of them: --all alone, and --all with every other option given.
OkArgs ==
    {[kind |-> "ok", all |-> FALSE, ping |-> p, traceroute |-> t, scan |-> s] :
        p \in BOOLEAN, t \in BOOLEAN,
        s \in {<<>>} \cup {Some(str) : str \in StringsUpTo(MaxLen)}}
    \cup
    {[kind |-> "ok", all |-> TRUE, ping |-> FALSE, traceroute |-> FALSE, scan |-> <<>>],
     [kind |-> "ok", all |-> TRUE, ping |-> TRUE, traceroute |-> TRUE, scan |-> Some(<<"2", ",">>)]}

ArgvSet ==
    {[kind |-> k, all |-> FALSE, ping |-> FALSE, traceroute |-> FALSE, scan |-> <<>>] :
        k \in {"none", "bad"}}
    \cup OkArgs

\* "if args.scan": the option was given and its string is not empty
ScanRequested(a) == a.scan # <<>> /\ a.scan[1] # <<>>

Order == <<"resolve", "ping", "scan", "traceroute">>

\* the branches of lines 168-180
Wanted(a, step) ==
    CASE step = "ping" -> a.all \/ a.ping
      [] step = "scan" -> a.all \/ ScanRequested(a)
      [] step = "traceroute" -> a.all \/ a.traceroute
      [] OTHER -> FALSE

Pos(step) == CHOOSE i \in DOMAIN Order : Order[i] = step

\* variant of NextStep with the calls in the order traceroute, scan, ping
NextStep_swapped(a, after) ==
    LET rev == <<"resolve", "traceroute", "scan", "ping">>
        p == CHOOSE i \in DOMAIN rev : rev[i] = after
        later == {i \in DOMAIN rev : i > p /\ Wanted(a, rev[i])}
    IN  IF later = {} THEN "done"
        ELSE rev[CHOOSE i \in later : \A j \in later : i <= j]

\* where main goes once the step `after` has returned
NextStep(a, after) ==
    LET later == {i \in DOMAIN Order : i > Pos(after) /\ Wanted(a, Order[i])}
    IN  IF later = {} THEN "done"
        ELSE Order[CHOOSE i \in later : \A j \in later : i <= j]

\* the ports string main passes to scan_ports
PortsArg(a) == IF a.all THEN common_ports ELSE a.scan[1]

-----------------------------------------------------------------------------
Init ==
    /\ pc = "start"
    /\ args \in ArgvSet
    /\ ip = "unset"
    /\ scan_ip = "unset"
    /\ trace_ip = "unset"
    /\ ports = <<>>
    /\ port_list = <<>>
    /\ idx = 0
    /\ open_ports = <<>>
    /\ results = <<>>
    /\ summary = <<>>
    /\ defaulttimeout = <<>>
    /\ lastTimeout = <<>>
    /\ lastOutcome = "none"
    /\ steps = <<>>
    /\ out = <<>>
    /\ fault = "none"
    /\ exitCode = 0
    /\ resolveCalls = 0

\* main, lines 150-152: no argument, help on stderr, sys.exit(1)
MainNoArgs ==
    /\ pc = "start"
    /\ args.kind = "none"
    /\ pc' = "exited"
    /\ out' = Append(out, "help")
    /\ fault' = "SystemExit"
    /\ exitCode' = 1
    /\ UNCHANGED <<args, ip, trace_ip, steps, resolveCalls>>
    /\ UNCHANGED scanVars

\* main, line 154: parser.parse_args() rejects the arguments, exit code 2
MainParseError ==
    /\ pc = "start"
    /\ args.kind = "bad"
    /\ pc' = "exited"
    /\ out' = Append(out, "usage_error")
    /\ fault' = "SystemExit"
    /\ exitCode' = 2
    /\ UNCHANGED <<args, ip, trace_ip, steps, resolveCalls>>
    /\ UNCHANGED scanVars

\* main, lines 154-165: parse, resolve, report
MainResolve ==
    /\ pc = "start"
    /\ args.kind = "ok"
    /\ \E r \in ResolveOutcomes :
         /\ ip' = r
         /\ out' = Append(out, IF r # "None" THEN "resolved" ELSE "resolve_failed")
    /\ resolveCalls' = resolveCalls + 1
    /\ steps' = Append(steps, "resolve")
    /\ pc' = NextStep(args, "resolve")
    /\ UNCHANGED <<args, trace_ip, fault, exitCode>>
    /\ UNCHANGED scanVars

\* the line ping_host prints for each end of check_output (lines 58-65)
PingMessage(o) ==
    CASE o = "reachable" -> "ping_reachable"
      [] o = "unreachable" -> "ping_unreachable"
      [] o = "notfound" -> "ping_notfound"

\* ping_host, lines 44-65
PingHost ==
    /\ pc = "ping"
    /\ steps' = Append(steps, "ping")
    /\ \E o \in PingOutcomes : out' = Append(out, PingMessage(o))
    /\ pc' = NextStep(args, "ping")
    /\ UNCHANGED <<args, ip, trace_ip, fault, exitCode, resolveCalls>>
    /\ UNCHANGED scanVars

\* sock.connect_ex: 0 when the connection is made, else the errno of the
\* failure; a connect nobody answers ends with EAGAIN when the socket has a
\* timeout and with ETIMEDOUT, once the system gives up, when it has none.
ConnectEx(outcome, timeout) ==
    CASE outcome = "ok" -> 0
      [] outcome = "refused" -> 111
      [] outcome = "unreachable" -> 101
      [] outcome = "timeout" -> IF timeout = <<>> THEN 110 ELSE 11

\* connect_ex raises OverflowError for a port outside 0..65535
PortInRange(port) == port >= 0 /\ port <= 65535

\* variant of Status with the two branches exchanged
Status_inverted(result) == IF result = 0 THEN "Closed" ELSE "Open"

\* lines 93-97: the status printed for a connect_ex result
Status(result) == IF result = 0 THEN "Open" ELSE "Closed"

\* variant of CollectOpen that inserts at the front of open_ports
CollectOpen_prepend(open, port, result) ==
    IF result = 0 THEN <<port>> \o open ELSE open

\* lines 93-95: open_ports after the probe of port
CollectOpen(open, port, result) ==
    IF result = 0 THEN Append(open, port) ELSE open

\* variant of ScanStart that ends the process when the host does not resolve
ScanStart_fatal ==
    /\ pc = "scan"
    /\ steps' = Append(steps, "scan")
    /\ resolveCalls' = resolveCalls + 1
    /\ ports' = PortsArg(args)
    /\ \E r \in ResolveOutcomes :
         /\ scan_ip' = r
         /\ IF r = "None"
            THEN /\ out' = Append(out, "scan_aborted")
                 /\ pc' = "crashed"
                 /\ fault' = "SystemExit"
                 /\ exitCode' = 1
                 /\ UNCHANGED <<port_list, idx>>
            ELSE /\ out' = Append(out, "scan_started")
                 /\ pc' = "scan_loop"
                 /\ port_list' = ParsePorts(PortsArg(args))
                 /\ idx' = 1
                 /\ UNCHANGED <<fault, exitCode>>
    /\ UNCHANGED <<args, ip, trace_ip, open_ports, results, summary,
                   defaulttimeout, lastTimeout, lastOutcome>>

\* scan_ports, lines 71-82: resolve again, give up when that fails, else
\* build port_list (int() may raise ValueError, which nothing catches)
ScanStart ==
    /\ pc = "scan"
    /\ steps' = Append(steps, "scan")
    /\ resolveCalls' = resolveCalls + 1
    /\ ports' = PortsArg(args)
    /\ \E r \in ResolveOutcomes :
         /\ scan_ip' = r
         /\ IF r = "None"
            THEN /\ out' = Append(out, "scan_aborted")
                 /\ pc' = NextStep(args, "scan")
                 /\ UNCHANGED <<port_list, idx, fault, exitCode>>
            ELSE IF RaisesValueError(PortsArg(args))
            THEN /\ out' = Append(out, "scan_started")
                 /\ pc' = "crashed"
                 /\ fault' = "ValueError"
                 /\ exitCode' = 1
                 /\ UNCHANGED <<port_list, idx>>
            ELSE /\ out' = Append(out, "scan_started")
                 /\ pc' = "scan_loop"
                 /\ port_list' = ParsePorts(PortsArg(args))
                 /\ idx' = 1
                 /\ UNCHANGED <<fault, exitCode>>
    /\ UNCHANGED <<args, ip, trace_ip, open_ports, results, summary,
                   defaulttimeout, lastTimeout, lastOutcome>>

\* scan_ports, lines 84-98: one turn of the loop.  The socket is created
\* (line 86) with the default timeout of that moment; line 88 sets the
\* default afterwards; line 92 connects.
ScanProbe ==
    /\ pc = "scan_loop"
    /\ idx <= Len(port_list)
    /\ defaulttimeout' = Some(per_port_timeout)
    /\ LET port == port_list[idx]
           timeout == defaulttimeout
       IN  IF ~PortInRange(port)
           THEN /\ pc' = "crashed"
                /\ fault' = "OverflowError"
                /\ exitCode' = 1
                /\ UNCHANGED <<idx, open_ports, results, lastTimeout, lastOutcome>>
           ELSE \E o \in ConnectOutcomes :
                  LET result == ConnectEx(o, timeout)
                  IN  /\ lastOutcome' = o
                      /\ lastTimeout' = timeout
                      /\ results' = Append(results, [port |-> port, status |-> Status(result)])
                      /\ open_ports' = CollectOpen(open_ports, port, result)
                      /\ idx' = idx + 1
                      /\ UNCHANGED <<pc, fault, exitCode>>
    /\ UNCHANGED <<args, ip, scan_ip, trace_ip, ports, port_list, summary,
                   steps, out, resolveCalls>>

\* scan_ports, lines 100-106: the loop is over, print the summary
ScanFinish ==
    /\ pc = "scan_loop"
    /\ idx > Len(port_list)
    /\ summary' = Some(open_ports)
    /\ pc' = NextStep(args, "scan")
    /\ UNCHANGED <<args, ip, scan_ip, trace_ip, ports, port_list, idx, open_ports,
                   results, defaulttimeout, lastTimeout, lastOutcome, steps, out,
                   fault, exitCode, resolveCalls>>

\* An interrupt signal while scan_ports is in its loop (lines 84-106):
\* KeyboardInterrupt is raised there, nothing catches it, the interpreter
\* prints the traceback and the process ends on the signal (status 130).
Interrupt ==
    /\ pc = "scan_loop"
    /\ pc' = "crashed"
    /\ fault' = "KeyboardInterrupt"
    /\ exitCode' = 130
    /\ UNCHANGED <<args, ip, trace_ip, steps, out, resolveCalls>>
    /\ UNCHANGED scanVars

\* variant of Traceroute that takes main's ip instead of resolving again
Traceroute_reuse ==
    /\ pc = "traceroute"
    /\ steps' = Append(steps, "traceroute")
    /\ trace_ip' = ip
    /\ IF ip = "None"
       THEN out' = Append(out, "trace_aborted")
       ELSE \E o \in TraceOutcomes :
              out' = Append(out, IF o = "ran" THEN "trace_output" ELSE "trace_notfound")
    /\ pc' = NextStep(args, "traceroute")
    /\ UNCHANGED <<args, ip, fault, exitCode, resolveCalls>>
    /\ UNCHANGED scanVars

\* traceroute, lines 109-130: resolve again, give up when that fails, else
\* run the tool and copy its output
Traceroute ==
    /\ pc = "traceroute"
    /\ steps' = Append(steps, "traceroute")
    /\ resolveCalls' = resolveCalls + 1
    /\ \E r \in ResolveOutcomes :
         /\ trace_ip' = r
         /\ IF r = "None"
            THEN out' = Append(out, "trace_aborted")
            ELSE \E o \in TraceOutcomes :
                   out' = Append(out, IF o = "ran" THEN "trace_output" ELSE "trace_notfound")
    /\ pc' = NextStep(args, "traceroute")
    /\ UNCHANGED <<args, ip, fault, exitCode>>
    /\ UNCHANGED scanVars

Next ==
    \/ MainNoArgs
    \/ MainParseError
    \/ MainResolve
    \/ PingHost
    \/ ScanStart
    \/ ScanProbe
    \/ ScanFinish
    \/ Interrupt
    \/ Traceroute

Spec == Init /\ [][Next]_vars

-----------------------------------------------------------------------------
(* Vocabulary of the properties *)

Terminal == pc \in {"done", "exited", "crashed"}

InOut(tag) == \E i \in DOMAIN out : out[i] = tag

\* the steps the command line asks for, in main's order
Requested(a) ==
    LET F[i \in 1..Len(Order)] ==
            LET before == IF i = 1 THEN <<>> ELSE F[i - 1]
            IN  IF Wanted(a, Order[i]) THEN Append(before, Order[i]) ELSE before
    IN  F[Len(Order)]

ResultPorts == [i \in DOMAIN results |-> results[i].port]

IsOpenLine(r) == r.status = "Open"

OpenReported == LET sel == SelectSeq(results, IsOpenLine) IN [i \in DOMAIN sel |-> sel[i].port]

NoRepeat(seq) == \A i, j \in DOMAIN seq : i # j => seq[i] # seq[j]

Distinct(seq) == {seq[i] : i \in DOMAIN seq}

Occurrences(seq, v) == Cardinality({i \in DOMAIN seq : seq[i] = v})

\* seq without the later occurrences of a value already in it
FirstAppearance(seq) ==
    LET F[i \in 0..Len(seq)] ==
            IF i = 0 THEN <<>>
            ELSE IF \E j \in 1..(i - 1) : seq[j] = seq[i] THEN F[i - 1]
            ELSE Append(F[i - 1], seq[i])
    IN  F[Len(seq)]

\* number of entries of a comma separated string: its commas plus one
NumEntries(s) == Cardinality({i \in DOMAIN s : s[i] = ","}) + 1

ScanCompleted == summary # <<>>

PingReported == InOut("ping_reachable") \/ InOut("ping_unreachable") \/ InOut("ping_notfound")

TraceExecuted == InOut("trace_output") \/ InOut("trace_notfound")

-----------------------------------------------------------------------------
(* C1 *)

-----------------------------------------------------------------------------
(* C2 *)

LastStatus == results[Len(results)].status

-----------------------------------------------------------------------------
(* C3 *)

\* C3: the process exits with code 1 only when started with no argument
\* (help printed); every other invocation that names a host runs main to
\* its end and exits with code 0, whatever the --scan string and the
\* outcome of each step.
CE_C3 ==
    (Terminal /\ args.kind # "bad" /\ fault # "KeyboardInterrupt") =>
        IF args.kind = "none"
        THEN exitCode = 1 /\ InOut("help")
        ELSE pc = "done" /\ exitCode = 0

-----------------------------------------------------------------------------
(* C4 *)

\* C4: no failure of a probe or of a step aborts the run: once a port has
\* been probed every later port of the list is probed too, and every
\* requested step is executed.
CE_C4 ==
    (Terminal /\ args.kind = "ok" /\ fault # "KeyboardInterrupt") =>
        /\ idx = 0 \/ idx >= Len(port_list)
        /\ steps = <<"resolve">> \o Requested(args)

-----------------------------------------------------------------------------
(* C5 *)

\* C5, as claimed: when the resolution in main fails, every requested step
\* is still carried out: the ping is run, the ports are scanned, the path
\* is traced.
CE_C5 ==
    (Terminal /\ fault = "none" /\ ip = "None") =>
        /\ InOut("resolve_failed")
        /\ Wanted(args, "ping") => PingReported
        /\ Wanted(args, "scan") => ScanCompleted
        /\ Wanted(args, "traceroute") => TraceExecuted

\* C5, as amended: when the resolution in main fails, the failure is
\* reported and main goes on to the requested steps; the ping is run; the
\* port scan and the traceroute each resolve the host again and, when that
\* resolution fails, print that they abort and return without probing a
\* port or tracing, after which main goes on to the next requested step.
Thm_C5 ==
    /\ ip = "None" =>
         /\ InOut("resolve_failed")
         /\ LET req == Requested(args)
            IN  IF req = <<>> THEN pc = "done"
                ELSE pc = req[1] \/ (Len(steps) >= 2 /\ steps[2] = req[1])
         /\ (Wanted(args, "ping") /\ pc # "ping") => PingReported
    /\ scan_ip = "None" =>
         /\ InOut("scan_aborted")
         /\ results = <<>> /\ summary = <<>> /\ lastOutcome = "none"
         /\ IF Wanted(args, "traceroute")
            THEN pc = "traceroute" \/ steps[Len(steps)] = "traceroute"
            ELSE pc = "done"
    /\ trace_ip = "None" =>
         /\ InOut("trace_aborted")
         /\ ~TraceExecuted
         /\ pc = "done"

\* resolution failed in main and again in the scan and in the traceroute;
\* the ping ran, the two others gave up, main reached its end
Wit_C5 ==
    /\ ip = "None" /\ scan_ip = "None" /\ trace_ip = "None"
    /\ PingReported
    /\ steps = Order
    /\ pc = "done"

-----------------------------------------------------------------------------
(* C6 *)

\* C6: a scan that is interrupted still ends in a controlled way: the
\* summary is printed and no unhandled fault leaves scan_ports.
CE_C6 ==
    fault = "KeyboardInterrupt" =>
        /\ summary # <<>>
        /\ pc # "crashed"

-----------------------------------------------------------------------------
(* C7 *)

\* C7: the steps that run form a subsequence of resolve, ping, scan,
\* traceroute, beginning with resolve; no step starts while the scan is
\* running; only requested steps run; a run that reaches the end of main
\* has run every requested step; and with --all that is ping, the scan of
\* 21,22,80,443,3306,8000,8080 and traceroute, in this order.
Thm_C7 ==
    /\ \A i, j \in DOMAIN steps : i < j => Pos(steps[i]) < Pos(steps[j])
    /\ steps # <<>> => steps[1] = "resolve"
    /\ \A i \in DOMAIN steps : i > 1 => Wanted(args, steps[i])
    /\ pc = "scan_loop" => steps[Len(steps)] = "scan"
    /\ pc = "done" => steps = <<"resolve">> \o Requested(args)
    /\ (pc = "done" /\ args.all) =>
         /\ steps = <<"resolve", "ping", "scan", "traceroute">>
         /\ ports = common_ports
         /\ scan_ip # "None" => ResultPorts = <<21, 22, 80, 443, 3306, 8000, 8080>>

\* a run with --all that scanned the seven default ports and reached the end
Wit_C7 ==
    /\ pc = "done"
    /\ args.all
    /\ Len(results) = 7
    /\ TraceExecuted

-----------------------------------------------------------------------------
(* C8 *)

-----------------------------------------------------------------------------
(* C9 *)

\* C9: every connect_ex of a scan is made on a socket that has the
\* per-port timeout in force.
CE_C9 ==
    lastOutcome # "none" => lastTimeout = Some(per_port_timeout)

-----------------------------------------------------------------------------
(* C10 *)

Resolving == {"resolve", "scan", "traceroute"}

====
